---------------------------- MODULE Spec2Model ----------------------------
(***************************************************************************)
(* A model of ai_article_scanner.py: the daily scan (main), its Seen-Set   *)
(* store (get_seen_ids / save_seen_id on seen_store.json), the keyword     *)
(* classifier (is_relevant), the four collectors, the summarizers, the     *)
(* briefing generator and the mail hand-off.                               *)
(*                                                                         *)
(* Texts are sequences of one-character strings, so that Python's          *)
(* substring test (`word in text`) and str.lower() are computed, not       *)
(* assumed.  The process can be killed at any point of a run; the file     *)
(* seen_store.json outlives the process, everything else does not.         *)
(***************************************************************************)
EXTENDS Naturals, Sequences, FiniteSets, TLC

VARIABLES
    upstream,     \* what the four external sources serve (fixed per behaviour)
    file,         \* seen_store.json: [kind, seen_ids]
    pc,           \* position of the process in main()
    seen_ids,     \* main's local list seen_ids
    all_content,  \* main's local list all_content
    idx,          \* position of `for item in all_content`
    new_finds,    \* main's local list new_finds
    raw_briefing, \* main's local raw_briefing
    email_body,   \* main's local email_body
    mail,         \* what send_email did in this run
    gen,          \* the text-generation service: "up", "down" or "flaky"
    runs,         \* number of runs of main() started so far
    hist,         \* history of the current and the previous run (see HistInit)
    everSeen,     \* every id a completed save_seen_id has written to the file
    probe         \* the classifier's input and verdict (classifier specification)

vars == << upstream, file, pc, seen_ids, all_content, idx, new_finds,
           raw_briefing, email_body, mail, gen, runs, hist, everSeen, probe >>

-----------------------------------------------------------------------------
(* Bounds of the model.                                                    *)

\* runs of main() in one behaviour
MaxRuns == 3
\* entries of the long scholarly feed (more than the cap, fewer than scan_depth)
MaxFeed == 13

-----------------------------------------------------------------------------
(* CONFIG (src lines 18-79).                                               *)

max_email_items == 12
scan_depth == 25

expert_ai_keywords ==
    <<
       <<"a","i"," ">>,
       <<"a","r","t","i","f","i","c","i","a","l"," ","i","n","t","e","l","l","i","g","e","n","c","e">>,
       <<"l","l","m">>,
       <<"g","p","t">>,
       <<"g","e","n","e","r","a","t","i","v","e">>,
       <<"m","a","c","h","i","n","e"," ","l","e","a","r","n","i","n","g">>,
       <<"n","e","u","r","a","l">>,
       <<"a","l","g","o","r","i","t","h","m">>,
       <<"r","o","b","o","t">>,
       <<"a","g","e","n","t">>,
       <<"a","u","t","o","m","a","t","i","o","n">>,
       <<"c","o","p","i","l","o","t">>,
       <<"c","l","a","u","d","e">>,
       <<"g","e","m","i","n","i">>,
       <<"t","r","a","n","s","f","o","r","m","e","r">>,
       <<"c","o","m","p","u","t","e">>,
       <<"m","o","d","e","l">>,
       <<"t","u","r","i","n","g">>
    >>

positive_keywords ==
    <<
       <<"c","o","m","m","u","n","i","c","a","t","i","o","n">>,
       <<"a","g","e","n","c","y">>,
       <<"m","a","r","k","e","t","i","n","g">>,
       <<"a","d","v","e","r","t","i","s","i","n","g">>,
       <<"b","r","a","n","d">>,
       <<"b","e","h","a","v","i","o","r">>,
       <<"p","s","y","c","h","o","l","o","g">>,
       <<"p","e","r","s","u","a">>,
       <<"n","u","d","g","e">>,
       <<"d","e","c","i","s","i","o","n">>,
       <<"u","s","e","r"," ","e","x","p","e","r","i","e","n","c","e">>,
       <<"u","x">>,
       <<"i","n","t","e","r","f","a","c","e">>,
       <<"d","e","s","i","g","n">>,
       <<"c","h","a","t","b","o","t">>,
       <<"c","o","n","v","e","r","s","a","t","i","o","n","a","l">>,
       <<"n","a","r","r","a","t","i","v","e">>,
       <<"s","o","c","i","a","l"," ","m","e","d","i","a">>,
       <<"a","d","o","p","t","i","o","n">>,
       <<"c","o","n","s","u","m","e","r">>,
       <<"t","r","u","s","t">>,
       <<"e","t","h","i","c","s">>,
       <<"g","e","n","e","r","a","t","i","v","e">>
    >>

negative_keywords ==
    <<
       <<"r","a","d","i","o","l","o","g","y">>,
       <<"t","u","m","o","r">>,
       <<"c","a","n","c","e","r">>,
       <<"s","u","r","g","e","r","y">>,
       <<"s","u","r","g","i","c","a","l">>,
       <<"p","r","o","g","n","o","s","i","s">>,
       <<"d","i","a","g","n","o","s","i","s">>,
       <<"d","i","a","g","n","o","s","t","i","c">>,
       <<"c","l","i","n","i","c","a","l"," ","t","r","i","a","l">>,
       <<"g","e","n","o","m","i","c">>,
       <<"p","r","o","t","e","i","n">>,
       <<"m","o","l","e","c","u","l","a","r">>,
       <<"s","c","a","n">>,
       <<"m","r","i">>,
       <<"c","t"," ","i","m","a","g","e">>,
       <<"r","e","i","n","f","o","r","c","e","m","e","n","t"," ","l","e","a","r","n","i","n","g">>,
       <<"n","e","u","r","a","l"," ","n","e","t","w","o","r","k"," ","a","r","c","h","i","t","e","c","t","u","r","e">>,
       <<"g","r","a","d","i","e","n","t"," ","d","e","s","c","e","n","t">>,
       <<"l","o","g","i","t">>,
       <<"q","u","a","n","t","i","z","a","t","i","o","n">>,
       <<"b","i","t","-","f","l","i","p">>
    >>

\* expert_feeds: name and "filter" flag of each feed, in order (the url is the
\* index of the feed in upstream.experts)
expert_feeds ==
    << [name |-> "Ethan Mollick",   filter |-> FALSE],
       [name |-> "Scott Galloway",  filter |-> TRUE],
       [name |-> "Azeem Azhar",     filter |-> TRUE],
       [name |-> "Cory Doctorow",   filter |-> TRUE],
       [name |-> "Jakob Nielsen",   filter |-> TRUE],
       [name |-> "Ed Zitron",       filter |-> TRUE],
       [name |-> "Maggie Appleton", filter |-> TRUE],
       [name |-> "Simon Willison",  filter |-> TRUE] >>

reddit_tech_subs == << "ArtificialIntelligence", "MachineLearning", "ChatGPT", "OpenAI" >>
reddit_general_subs == << "marketing", "advertising", "AgencyLife" >>

-----------------------------------------------------------------------------
(* Python strings.                                                         *)

UpperCase == <<"A","B","C","D","E","F","G","H","I","J","K","L","M","N","O","P","Q","R","S","T","U","V","W","X","Y","Z">>
LowerCase == <<"a","b","c","d","e","f","g","h","i","j","k","l","m","n","o","p","q","r","s","t","u","v","w","x","y","z">>

\* str.lower() on one character
LowerChar(c) ==
    IF \E i \in 1..Len(UpperCase) : UpperCase[i] = c
    THEN LowerCase[CHOOSE i \in 1..Len(UpperCase) : UpperCase[i] = c]
    ELSE c

\* str.lower()
Lower(s) == [i \in 1..Len(s) |-> LowerChar(s[i])]

\* `w in text` for two strings
IsSubstring(w, text) ==
    \E i \in 0..(Len(text) - Len(w)) : SubSeq(text, i + 1, i + Len(w)) = w

\* any(k in text for k in words)
AnyIn(words, text) == \E k \in 1..Len(words) : IsSubstring(words[k], text)

\* title + " " + abstract
JoinText(title, abstract) == title \o << " " >> \o abstract

-----------------------------------------------------------------------------
(* is_relevant (src lines 110-116).                                        *)

\* the two loops in the other order: the allow-list decides first
is_relevant_AllowFirst(title, abstract) ==
    LET text == Lower(JoinText(title, abstract)) IN
    IF AnyIn(positive_keywords, text) THEN TRUE
    ELSE FALSE

\* the final return turned into True
is_relevant_DefaultAllow(title, abstract) ==
    LET text == Lower(JoinText(title, abstract)) IN
    IF AnyIn(negative_keywords, text) THEN FALSE
    ELSE TRUE

is_relevant(title, abstract) ==
    LET text == Lower(JoinText(title, abstract)) IN
    IF AnyIn(negative_keywords, text) THEN FALSE
    ELSE IF AnyIn(positive_keywords, text) THEN TRUE
    ELSE FALSE

-----------------------------------------------------------------------------
(* More of Python's str and list operations, as the collectors use them.   *)

Min(a, b) == IF a < b THEN a ELSE b

\* s[:n]
Take(s, n) == SubSeq(s, 1, Min(Len(s), n))

\* s[n:]
Drop(s, n) == SubSeq(s, n + 1, Len(s))

\* str.replace(old, ""), leftmost occurrences first
RECURSIVE Remove(_, _)
Remove(s, old) ==
    IF Len(s) < Len(old) \/ Len(s) = 0 THEN s
    ELSE IF Take(s, Len(old)) = old THEN Remove(Drop(s, Len(old)), old)
    ELSE << s[1] >> \o Remove(Drop(s, 1), old)

\* str.strip()
RECURSIVE Strip(_)
Strip(s) ==
    IF Len(s) = 0 THEN s
    ELSE IF s[1] = " " THEN Strip(Drop(s, 1))
    ELSE IF s[Len(s)] = " " THEN Strip(Take(s, Len(s) - 1))
    ELSE s

\* id.strip("/").split("/")[-1] on an id given as its "/"-separated pieces:
\* strip drops the empty pieces at both ends, [-1] takes the last piece left
\* ("".split("/") is [""])
RECURSIVE LastPiece(_)
LastPiece(pieces) ==
    IF Len(pieces) = 0 THEN ""
    ELSE IF pieces[Len(pieces)] = "" THEN LastPiece(Take(pieces, Len(pieces) - 1))
    ELSE pieces[Len(pieces)]

\* id.split('/abs/')[-1].split('v')[0] on an id given as a sequence of pieces,
\* each the separator "/abs/", the letter "v", or a string holding neither
RECURSIVE AfterLastAbs(_)
AfterLastAbs(pieces) ==
    IF \E i \in 1..Len(pieces) : pieces[i] = "/abs/"
    THEN AfterLastAbs(Drop(pieces, CHOOSE i \in 1..Len(pieces) : pieces[i] = "/abs/"))
    ELSE pieces

RECURSIVE BeforeFirstV(_)
BeforeFirstV(pieces) ==
    IF Len(pieces) = 0 \/ pieces[1] = "v" THEN ""
    ELSE pieces[1] \o BeforeFirstV(Drop(pieces, 1))

\* concatenation of a list of lists
RECURSIVE Concat(_)
Concat(ss) == IF Len(ss) = 0 THEN << >> ELSE ss[1] \o Concat(Drop(ss, 1))

\* item['id'] of every item of a list, as a set
Ids(items) == { items[i].id : i \in 1..Len(items) }

\* the elements of a list, as a set
Range(s) == { s[i] : i \in 1..Len(s) }

-----------------------------------------------------------------------------
(* The collectors.  `down` is the set of units (one feed, one community,   *)
(* one API) whose request fails or parses to nothing in this run.  An      *)
(* entry of a feed is a record of the fields the parser found; reading a   *)
(* field that is not there raises, and the except clause around it ends    *)
(* the unit.                                                               *)

\* one expert feed (body of the loop, src lines 227-254): the list of the
\* results it appends, empty on `continue`
ExpertUnit(i, down) ==
    LET expert == expert_feeds[i]
        entries == upstream.experts[i] IN
    IF << "expert", i >> \in down \/ Len(entries) = 0 THEN << >>
    ELSE IF "title" \notin DOMAIN entries[1] \/ "link" \notin DOMAIN entries[1] THEN << >>
    ELSE
        LET latest == entries[1]
            clean_id == IF "id" \in DOMAIN latest THEN latest.id ELSE latest.link
            summary_text == IF "summary" \in DOMAIN latest
                            THEN Take(latest.summary, 2500) ELSE latest.title
            full_text == Lower(JoinText(latest.title, summary_text))
        IN  IF expert.filter /\ ~ AnyIn(expert_ai_keywords, full_text) THEN << >>
            ELSE << [ source   |-> "Expert Voice: " \o expert.name,
                      id       |-> clean_id,
                      title    |-> latest.title,
                      url      |-> latest.link,
                      raw_text |-> summary_text ] >>

fetch_expert_insights(down) ==
    Concat([ i \in 1..Len(expert_feeds) |-> ExpertUnit(i, down) ])

\* one community (body of the loop, src lines 192-219): the candidates it
\* appends; an entry without title, id or link raises at src line 204 or 210,
\* which ends the scan of the community and keeps what was appended before
RECURSIVE RedditScan(_, _, _)
RedditScan(sub, entries, found_count) ==
    IF Len(entries) = 0 \/ found_count >= 2 THEN << >>
    ELSE IF "title" \notin DOMAIN entries[1] THEN << >>
    ELSE
        LET p == entries[1]
            clean_title == Strip(Remove(p.title, <<"[","D","]">>))
            general == \E g \in 1..Len(reddit_general_subs) : reddit_general_subs[g] = sub
        IN  IF general /\ ~ AnyIn(expert_ai_keywords, Lower(clean_title))
            THEN RedditScan(sub, Drop(entries, 1), found_count)
            ELSE IF "id" \notin DOMAIN p \/ "link" \notin DOMAIN p THEN << >>
            ELSE << [ source   |-> "r/" \o sub,
                      id       |-> p.id,
                      title    |-> clean_title,
                      url      |-> p.link,
                      raw_text |-> << >> ] >>
                 \o RedditScan(sub, Drop(entries, 1), found_count + 1)

RedditUnit(j, down) ==
    LET all_targets == reddit_tech_subs \o reddit_general_subs IN
    IF << "reddit", j >> \in down THEN << >>
    ELSE RedditScan(all_targets[j], Take(upstream.reddit[j], 5), 0)

fetch_reddit_buzz(down) ==
    Take(Concat([ j \in 1..Len(reddit_tech_subs \o reddit_general_subs)
                    |-> RedditUnit(j, down) ]), 3)

\* the loops of the classified sources (src lines 289-297, 307-315) raise at
\* an entry without title or summary, and at a relevant one without id or link
EntryRaises(entry) ==
    \/ "title" \notin DOMAIN entry
    \/ "summary" \notin DOMAIN entry
    \/ /\ is_relevant(entry.title, entry.summary)
       /\ ("id" \notin DOMAIN entry \/ "link" \notin DOMAIN entry)

\* the classified sources keep an entry only if is_relevant accepts it
JmirItem(entry) ==
    [ source   |-> "JMIR AI",
      id       |-> LastPiece(entry.id),
      title    |-> entry.title,
      abstract |-> entry.summary,
      url      |-> entry.link ]

\* fetch_jmir_articles without the call of is_relevant: every entry is kept
fetch_jmir_articles_NoFilter(down) ==
    IF << "jmir", 1 >> \in down THEN << >>
    ELSE IF \E k \in 1..Min(Len(upstream.jmir), scan_depth) :
                { "id", "title", "summary", "link" } \ DOMAIN upstream.jmir[k] # {}
    THEN << >>
    ELSE [ i \in 1..Min(Len(upstream.jmir), scan_depth) |-> JmirItem(upstream.jmir[i]) ]

fetch_jmir_articles(down) ==
    IF << "jmir", 1 >> \in down THEN << >>
    ELSE IF \E k \in 1..Min(Len(upstream.jmir), scan_depth) : EntryRaises(upstream.jmir[k])
    THEN << >>
    ELSE LET Keep(entry) == is_relevant(entry.title, entry.summary)
             relevant == SelectSeq(Take(upstream.jmir, scan_depth), Keep)
         IN  [ i \in 1..Len(relevant) |-> JmirItem(relevant[i]) ]

\* str.replace('\n', ' ')
Unwrap(s) == [ i \in 1..Len(s) |-> IF s[i] = "\n" THEN " " ELSE s[i] ]

ArxivItem(entry) ==
    [ source   |-> "arXiv",
      id       |-> BeforeFirstV(AfterLastAbs(entry.id)),
      title    |-> Unwrap(entry.title),
      abstract |-> Unwrap(entry.summary),
      url      |-> entry.link ]

fetch_arxiv_articles(down) ==
    IF << "arxiv", 1 >> \in down THEN << >>
    ELSE IF \E k \in 1..Len(upstream.arxiv) : EntryRaises(upstream.arxiv[k]) THEN << >>
    ELSE LET Keep(entry) == is_relevant(entry.title, entry.summary)
             relevant == SelectSeq(upstream.arxiv, Keep)
         IN  [ i \in 1..Len(relevant) |-> ArxivItem(relevant[i]) ]

\* `"Expert Voice" in source` and `"r/" in source`: with the configured names,
\* the first holds exactly of the sources fetch_expert_insights builds and the
\* second exactly of those fetch_reddit_buzz builds
HasExpertVoice(source) ==
    \E i \in 1..Len(expert_feeds) : source = "Expert Voice: " \o expert_feeds[i].name

HasRSlash(source) ==
    \E j \in 1..Len(reddit_tech_subs \o reddit_general_subs) :
        source = "r/" \o (reddit_tech_subs \o reddit_general_subs)[j]

-----------------------------------------------------------------------------
(* The Seen-Set store (src lines 95-108).  The file is missing, holds      *)
(* text json.load rejects ("corrupt": empty or cut short), or holds the    *)
(* record {"seen_ids": [...], "last_updated": ...}.  last_updated is       *)
(* written and never read, and is left out.                                *)

FileMissing == [ kind |-> "missing", seen_ids |-> << >> ]
FileCorrupt == [ kind |-> "corrupt", seen_ids |-> << >> ]
FileRecord(ids) == [ kind |-> "ok", seen_ids |-> ids ]

\* what the program never writes and may find: bytes that are no UTF-8 text,
\* a JSON value that is no object (a list), an object without "seen_ids"
FileUndecodable == [ kind |-> "undecodable", seen_ids |-> << >> ]
FileNotObject == [ kind |-> "notobject", seen_ids |-> << >> ]
FileNoKey == [ kind |-> "nokey", seen_ids |-> << >> ]

\* the ids json.load would find in the file now
Persisted == IF file.kind = "ok" THEN Range(file.seen_ids) ELSE {}

\* src lines 98-101: the exceptions the except clause does not name leave
\* get_seen_ids (UnicodeDecodeError of the read, AttributeError of .get)
LoadRaises == file.kind \in { "undecodable", "notobject" }

get_seen_ids ==
    IF file.kind = "missing" THEN << >>
    ELSE IF file.kind = "corrupt" THEN << >>
    ELSE IF file.kind = "nokey" THEN << >>
    ELSE file.seen_ids

\* save_seen_id, src line 104, on a list of its own: the list of main stays
\* as it was
AppendSeen_OwnList(article_id, ids) == ids

\* save_seen_id, src line 104
AppendSeen(article_id, ids) ==
    IF article_id \in Range(ids) THEN ids ELSE Append(ids, article_id)

\* save_seen_id, src line 107: open(path, 'w') leaves an empty file
OpenForWrite == FileCorrupt

\* save_seen_id, src line 108, writing only the new id
DumpRecord_OnlyNew(ids) == FileRecord(IF Len(ids) = 0 THEN ids ELSE << ids[Len(ids)] >>)

\* save_seen_id, src line 108 and the close of the with-block: the whole list
DumpRecord(ids) == FileRecord(ids)

-----------------------------------------------------------------------------
(* The text-generation service and the summarizers (src lines 85-91,       *)
(* 119-144, 321-381).  A generated text is a list of pieces.               *)

\* what the service can answer to one call
GenOutcomes ==
    IF gen = "up" THEN { "ok" }
    ELSE IF gen = "down" THEN { "fail" }
    ELSE { "ok", "fail" }

\* a reply of the service (already .strip()ped)
GenReply == << "**", "The Concept:", "text", "\n", "### ", "Themes:", "more" >>

LabelPhrases == { "Agency Implication:", "Buzz Check:", "Themes:", "The Debate:", "The Concept:" }

RECURSIVE CleanPieces(_)
CleanPieces(text) ==
    IF Len(text) = 0 THEN << >>
    ELSE LET p == text[1] rest == CleanPieces(Drop(text, 1)) IN
         IF p \in { "**", "### ", "###" } THEN rest
         ELSE IF p \in LabelPhrases THEN << "<b>" \o p \o "</b>" >> \o rest
         ELSE IF p = "\n" THEN << "<br>" >> \o rest
         ELSE << p >> \o rest

clean_llm_output(text) == IF Len(text) = 0 THEN << >> ELSE CleanPieces(text)

SummaryFailed == << "Summary failed." >>
BriefingFailed == << "Could not generate briefing." >>

\* a summarizer whose except clause is missing: the error leaves the function
Summarize_NoExcept(outcome) ==
    IF outcome = "fail" THEN << "raise" >> ELSE clean_llm_output(GenReply)

\* the try/except around the call of the service, the same in the three
\* summarizers (src lines 327-333, 355-361, 375-381)
Summarize(outcome) ==
    IF outcome = "fail" THEN SummaryFailed ELSE clean_llm_output(GenReply)

\* the test of summarize_reddit_post (src line 340): the missing-context branch
RedditContextMissing(context) ==
    Len(context) = 0 \/ \E i \in 1..Len(context) : context[i] = "Web Findings:\n"

\* the prompt of summarize_reddit_post, by its branch (src lines 340-345)
RedditPrompt(context) ==
    IF RedditContextMissing(context) THEN "could not read the comments"
    ELSE "discussion transcript"

summarize_expert_post(title, raw_text, outcome) == Summarize(outcome)

summarize_reddit_post(title, context, outcome) == Summarize(outcome)

summarize_article(title, abstract, web_context, outcome) == Summarize(outcome)

generate_daily_briefing(items, outcome) ==
    IF Len(items) = 0 THEN << "No major updates today." >>
    ELSE IF outcome = "fail" THEN BriefingFailed
    ELSE SelectSeq(GenReply, LAMBDA p : p # "**")

\* fetch_reddit_discussion: the transcript it returns when the request succeeds
\* (it returns None otherwise)
Transcript == << "OP POST: ", "body", "\n\nTOP COMMENTS:\n", "Comment 1: c\n" >>

\* get_web_context
WebContexts ==
    { << "Web Findings:\n", "- t: b\n" >>,
      << "No immediate news found." >>,
      << "Web search failed." >> }

-----------------------------------------------------------------------------
(* main (src lines 385-453).                                               *)
(*                                                                         *)
(* pc: "idle" (never run), "loop" (at the head of the for loop), "save"    *)
(* (save_seen_id called), "dump" (the file is open for writing), "sleep"   *)
(* (time.sleep), "report" (after the loop), "send" (send_email called),    *)
(* "done" (main returned), "failed" (an exception left main), "killed"     *)
(* (the process was terminated).  The locals of main do not outlive the    *)
(* process: they are cleared when it ends.  The file and the mail stay.    *)

Running == { "loop", "save", "dump", "sleep", "report", "send" }
Ended == { "idle", "done", "failed", "killed" }

\* the units one outage can hit; an outage of a unit that serves nothing
\* changes nothing, so the units that serve entries are enumerated
Units ==
    { << "expert", i >> : i \in { k \in 1..Len(expert_feeds) : Len(upstream.experts[k]) > 0 } }
    \cup { << "reddit", j >> : j \in { k \in 1..Len(reddit_tech_subs \o reddit_general_subs) :
                                            Len(upstream.reddit[k]) > 0 } }
    \cup (IF Len(upstream.jmir) > 0 THEN { << "jmir", 1 >> } ELSE {})
    \cup (IF Len(upstream.arxiv) > 0 THEN { << "arxiv", 1 >> } ELSE {})

\* src line 390 with the scholarly collectors called first
Gather_ScholarlyFirst(down) ==
    fetch_jmir_articles(down) \o fetch_arxiv_articles(down)
    \o fetch_expert_insights(down) \o fetch_reddit_buzz(down)

\* src line 390
Gather(down) ==
    fetch_expert_insights(down) \o fetch_reddit_buzz(down)
    \o fetch_jmir_articles(down) \o fetch_arxiv_articles(down)

\* src line 394 without the test: nothing is ever taken as seen
IsSeen_Never(item, ids) == FALSE

\* src line 394: item['id'] in seen_ids
IsSeen(item, ids) == item.id \in Range(ids)

\* src line 395 with > for >=
CapReached_OffByOne(finds) == Len(finds) > max_email_items

\* src line 395: len(new_finds) >= CONFIG["max_email_items"]
CapReached(finds) == Len(finds) >= max_email_items

\* src line 426 without the test: the report is built whatever was found
HasFinds_Always(finds) == TRUE

\* src line 426: `if new_finds:`
HasFinds(finds) == Len(finds) > 0

NoBody == [ briefing |-> << >>, items |-> << >> ]

\* src lines 430-449: the briefing, then one block per item of new_finds
EmailBody(briefing, finds) ==
    [ briefing |-> SelectSeq(briefing, LAMBDA p : p \notin { "**", "###" }),
      items    |-> [ i \in 1..Len(finds) |->
                        [ source |-> finds[i].source, url |-> finds[i].url,
                          title |-> finds[i].title, summary |-> finds[i].summary ] ] ]

HistInit ==
    [ seen0       |-> {},      \* the ids get_seen_ids returned to this run
      seenBefore  |-> {},      \* everSeen when this run started
      down        |-> {},      \* the units that were out when this run collected
      hitCap      |-> FALSE,   \* this run left the loop by `break`
      genOk       |-> FALSE,   \* a generation call of this run succeeded
      genFailed   |-> FALSE,   \* a generation call of this run failed
      writeError  |-> FALSE,   \* save_seen_id raised in this run
      lastStatus  |-> "idle",  \* how the last ended run ended
      lastContent |-> << >>,   \* all_content of the last ended run, if main returned
      lastHitCap  |-> FALSE,   \* hitCap of the last ended run, if main returned
      lastFinds   |-> 0,       \* len(new_finds) of the last ended run, if main returned
      killedAfter |-> {},      \* the id whose save had just completed when the first
                               \* run was killed, if it was killed there
      dropped     |-> {} ]     \* the ids of the report of the first run, if its
                               \* delivery failed

\* the process ends: how, and what is left of it
Exit(status, write_error) ==
    /\ pc' = status
    /\ seen_ids' = << >>
    /\ all_content' = << >>
    /\ idx' = 1
    /\ new_finds' = << >>
    /\ raw_briefing' = << >>
    /\ email_body' = NoBody
    /\ hist' = [ hist EXCEPT
            !.seen0 = {},
            !.seenBefore = {},
            !.down = {},
            !.hitCap = FALSE,
            !.genOk = FALSE,
            !.genFailed = FALSE,
            !.writeError = write_error,
            !.lastStatus = status,
            !.lastContent = IF status = "done" THEN all_content ELSE << >>,
            !.lastHitCap = (status = "done" /\ hist.hitCap),
            !.lastFinds = IF status = "done" THEN Len(new_finds) ELSE 0,
            !.killedAfter = IF status = "killed" /\ pc = "sleep" /\ runs = 1
                            THEN { new_finds[Len(new_finds)].id } ELSE @,
            !.dropped = IF status = "done" /\ pc = "send" /\ runs = 1 /\ mail' = "failed"
                        THEN Ids(new_finds) ELSE @ ]

\* what main does with an exception of save_seen_id, were the call wrapped in
\* try/except: the loop goes on
OnWriteError_Swallow == "sleep"

\* what main does with an exception of save_seen_id (src line 423): nothing
\* catches it, it leaves main
OnWriteError == "failed"

\* src lines 386-392: the Seen-Set is loaded and the collectors are called; an
\* exception of get_seen_ids leaves main before anything is collected
StartRun ==
    /\ pc \in Ended
    /\ runs < MaxRuns
    /\ IF LoadRaises
       THEN /\ pc' = "failed"
            /\ hist' = [ hist EXCEPT !.writeError = FALSE,
                                     !.lastStatus = "failed",
                                     !.lastContent = << >>,
                                     !.lastHitCap = FALSE,
                                     !.lastFinds = 0 ]
            /\ UNCHANGED << all_content, seen_ids >>
       ELSE /\ pc' = "loop"
            /\ seen_ids' = get_seen_ids
            /\ \E down \in { {} } \cup { { u } : u \in Units } :
                  /\ all_content' = Gather(down)
                  /\ hist' = [ hist EXCEPT !.down = down,
                                           !.seen0 = Range(get_seen_ids),
                                           !.seenBefore = everSeen,
                                           !.writeError = FALSE ]
    /\ new_finds' = << >>
    /\ idx' = 1
    /\ raw_briefing' = << >>
    /\ email_body' = NoBody
    /\ mail' = "none"
    /\ runs' = runs + 1
    /\ UNCHANGED << upstream, file, gen, everSeen, probe >>

\* src line 393 with the list exhausted: the loop ends
LoopEnd ==
    /\ pc = "loop"
    /\ idx > Len(all_content)
    /\ pc' = "report"
    /\ UNCHANGED << upstream, file, seen_ids, all_content, idx, new_finds,
                    raw_briefing, email_body, mail, gen, runs, hist, everSeen, probe >>

\* src line 394: continue
SkipSeen ==
    /\ pc = "loop"
    /\ idx <= Len(all_content)
    /\ IsSeen(all_content[idx], seen_ids)
    /\ idx' = idx + 1
    /\ UNCHANGED << upstream, file, pc, seen_ids, all_content, new_finds,
                    raw_briefing, email_body, mail, gen, runs, hist, everSeen, probe >>

\* src line 395: break
Break ==
    /\ pc = "loop"
    /\ idx <= Len(all_content)
    /\ ~ IsSeen(all_content[idx], seen_ids)
    /\ CapReached(new_finds)
    /\ pc' = "report"
    /\ hist' = [ hist EXCEPT !.hitCap = TRUE ]
    /\ UNCHANGED << upstream, file, seen_ids, all_content, idx, new_finds,
                    raw_briefing, email_body, mail, gen, runs, everSeen, probe >>

\* src lines 400-410: what the item can be after the deep fetch
DeepFetch(item) ==
    IF HasRSlash(item.source)
    THEN { [ item EXCEPT !.raw_text = Transcript ] }
         \cup
         { [ item EXCEPT !.raw_text =
                << "Reddit scraping failed. Web Search Context:\n" >> \o web_ctx ] :
                web_ctx \in WebContexts }
    ELSE { item }

\* src lines 413-420: the summary main asks for, by the type of the source
\* (the web context of an article is fetched and not used by the prompt)
SummaryOf(item, outcome) ==
    IF HasExpertVoice(item.source)
    THEN summarize_expert_post(item.title, item.raw_text, outcome)
    ELSE IF HasRSlash(item.source)
    THEN summarize_reddit_post(item.title, item.raw_text, outcome)
    ELSE summarize_article(item.title, item.abstract, << >>, outcome)

\* src lines 413-420: the item with its summary
Summarized(item, outcome) ==
    IF "summary" \in DOMAIN item THEN item
    ELSE [ f \in DOMAIN item \cup { "summary" } |->
             IF f = "summary" THEN SummaryOf(item, outcome) ELSE item[f] ]

\* src lines 397-422: one unseen candidate under the cap is fetched, summarized
\* and appended; save_seen_id is called next
Process ==
    /\ pc = "loop"
    /\ idx <= Len(all_content)
    /\ ~ IsSeen(all_content[idx], seen_ids)
    /\ ~ CapReached(new_finds)
    /\ \E fetched \in DeepFetch(all_content[idx]), outcome \in GenOutcomes :
          LET item == Summarized(fetched, outcome)
          IN  IF item.summary = << "raise" >>
              THEN /\ Exit("failed", FALSE)
              ELSE /\ pc' = "save"
                   /\ new_finds' = Append(new_finds, item)
                   /\ hist' = [ hist EXCEPT !.genOk = hist.genOk \/ outcome = "ok",
                                            !.genFailed = hist.genFailed \/ outcome = "fail" ]
                   /\ UNCHANGED << seen_ids, all_content, idx, raw_briefing, email_body >>
    /\ UNCHANGED << upstream, file, mail, gen, runs, everSeen, probe >>

\* the end of a call of save_seen_id that raised
WriteFailed ==
    IF OnWriteError = "failed"
    THEN Exit("failed", TRUE)
    ELSE /\ pc' = OnWriteError
         /\ hist' = [ hist EXCEPT !.writeError = TRUE ]
         /\ UNCHANGED << all_content, idx, new_finds, raw_briefing, email_body >>

\* src lines 104-107: the id joins the list and the file is opened for writing,
\* or os.makedirs / open raises and the file is as it was
SaveOpen ==
    /\ pc = "save"
    /\ \/ /\ file' = OpenForWrite
          /\ seen_ids' = AppendSeen(new_finds[Len(new_finds)].id, seen_ids)
          /\ pc' = "dump"
          /\ UNCHANGED << all_content, idx, new_finds, raw_briefing, email_body, hist >>
       \/ /\ file' = file
          /\ WriteFailed
          /\ OnWriteError = "failed" \/
                seen_ids' = AppendSeen(new_finds[Len(new_finds)].id, seen_ids)
    /\ UNCHANGED << upstream, mail, gen, runs, everSeen, probe >>

\* src line 108: json.dump and the close write the record, or raise (disk full)
\* and leave the file cut short
SaveDump ==
    /\ pc = "dump"
    /\ \/ /\ file' = DumpRecord(seen_ids)
          /\ everSeen' = everSeen \cup Range(DumpRecord(seen_ids).seen_ids)
          /\ pc' = "sleep"
          /\ UNCHANGED << seen_ids, all_content, idx, new_finds, raw_briefing, email_body, hist >>
       \/ /\ file' = FileCorrupt
          /\ everSeen' = everSeen
          /\ WriteFailed
          /\ OnWriteError = "failed" \/ seen_ids' = seen_ids
    /\ UNCHANGED << upstream, mail, gen, runs, probe >>

\* src line 424, and the for loop moves on
Sleep ==
    /\ pc = "sleep"
    /\ idx' = idx + 1
    /\ pc' = "loop"
    /\ UNCHANGED << upstream, file, seen_ids, all_content, new_finds, raw_briefing, email_body,
                    mail, gen, runs, hist, everSeen, probe >>

\* src lines 426-449: the briefing over the accepted items and the body of the mail
Brief ==
    /\ pc = "report"
    /\ HasFinds(new_finds)
    /\ \E outcome \in GenOutcomes :
          /\ raw_briefing' = generate_daily_briefing(new_finds, outcome)
          /\ email_body' = EmailBody(generate_daily_briefing(new_finds, outcome), new_finds)
          /\ hist' = [ hist EXCEPT !.genOk = hist.genOk \/ outcome = "ok",
                                   !.genFailed = hist.genFailed \/ outcome = "fail" ]
    /\ pc' = "send"
    /\ UNCHANGED << upstream, file, seen_ids, all_content, idx, new_finds, mail,
                    gen, runs, everSeen, probe >>

\* src lines 452-453: nothing new, main returns
NothingNew ==
    /\ pc = "report"
    /\ ~ HasFinds(new_finds)
    /\ Exit("done", FALSE)
    /\ UNCHANGED << upstream, file, mail, gen, runs, everSeen, probe >>

\* send_email (src lines 266-283), called at src line 451: no credentials, sent,
\* or an SMTP error that is printed; main returns
Send ==
    /\ pc = "send"
    /\ mail' \in { "skipped", "sent", "failed" }
    /\ Exit("done", FALSE)
    /\ UNCHANGED << upstream, file, gen, runs, everSeen, probe >>

\* the process is terminated from outside, anywhere in a run
Kill ==
    /\ pc \in Running
    /\ Exit("killed", FALSE)
    /\ UNCHANGED << upstream, file, mail, gen, runs, everSeen, probe >>

-----------------------------------------------------------------------------
(* What the sources serve.                                                 *)

NoFeeds == [ i \in 1..8 |-> << >> ]
NoSubs == [ j \in 1..7 |-> << >> ]

\* the two scholarly sources: relevant, blocked and unmatched entries, an
\* entry whose block term spans title and summary, and ids that collide
\* after the collectors' id derivation
World_Scholarly ==
    [ experts |-> NoFeeds,
      reddit  |-> NoSubs,
      jmir    |-> <<
          [ id |-> << "https:", "", "ai.jmir.org", "2024", "e1", "" >>, link |-> "j1",
            title |-> <<"C","h","a","t","b","o","t"," ","T","r","u","s","t">>, summary |-> <<>> ],
          [ id |-> << "https:", "", "ai.jmir.org", "2024", "e2" >>, link |-> "j2",
            title |-> <<"C","a","n","c","e","r"," ","m","a","r","k","e","t","i","n","g">>, summary |-> <<"t","u","m","o","r">> ],
          [ id |-> << "https:", "", "ai.jmir.org", "2024", "e3" >>, link |-> "j3",
            title |-> <<"M","a","r","k","e","t","i","n","g">>, summary |-> <<"A"," ","d","e","s","i","g","n"," ","s","t","u","d","y">> ],
          [ id |-> << "https:", "", "ai.jmir.org", "2024", "e4" >>, link |-> "j4",
            title |-> <<"W","e","a","t","h","e","r">>, summary |-> <<"r","a","i","n">> ],
          [ id |-> << "https:", "", "ai.jmir.org", "2025", "e1" >>, link |-> "j5",
            title |-> <<"B","r","a","n","d">>, summary |-> <<"e","t","h","i","c","s">> ] >>,
      arxiv   |-> <<
          [ id |-> << "http://arxiv.org", "/abs/", "2401.001", "v", "1" >>, link |-> "a1",
            title |-> <<"N","u","d","g","e">>, summary |-> <<"d","e","c","i","s","i","o","n">> ],
          [ id |-> << "http://arxiv.org", "/abs/", "2401.001", "v", "2" >>, link |-> "a2",
            title |-> <<"N","u","d","g","e">>, summary |-> <<"d","e","c","i","s","i","o","n">> ],
          [ id |-> << "http://arxiv.org", "/abs/", "2401.002", "v", "1" >>, link |-> "a3",
            title |-> <<"U","X"," ","o","f"," ","a"," ","c","l","i","n","i","c","a","l">>, summary |-> <<"t","r","i","a","l">> ] >> ]

\* the same sources after the publisher revised entry e2: its title and
\* summary no longer hold a block term
World_Revised ==
    [ World_Scholarly EXCEPT
        !.jmir[2] = [ id |-> << "https:", "", "ai.jmir.org", "2024", "e2" >>, link |-> "j2",
                      title |-> <<"M","a","r","k","e","t","i","n","g"," ","e","t","h","i","c","s">>, summary |-> <<>> ] ]

\* the opinion feeds and the communities, with one scholarly entry behind them
World_Social ==
    [ experts |-> [ i \in 1..8 |->
          IF i = 1 THEN << [ id |-> "x1", link |-> "l1",
                             title |-> <<"C","a","t","s">>, summary |-> <<"p","e","t","s">> ] >>
          ELSE IF i = 2 THEN << [ link |-> "l2", title |-> <<"O","n"," ","L","L","M"," ","u","s","e">> ] >>
          ELSE IF i = 3 THEN << [ id |-> "x3", link |-> "l3",
                                  title |-> <<"C","o","o","k","i","n","g">>, summary |-> <<"s","a","l","t">> ] >>
          ELSE << >> ],
      reddit  |-> [ j \in 1..7 |->
          IF j = 5 THEN << [ id |-> "t3_a", link |-> "r1", title |-> <<"U","s","i","n","g"," ","A","I">> ],
                           [ id |-> "t3_b", link |-> "r2", title |-> <<"[","D","]"," ","A","I"," ","i","n"," ","a","d","s"," ">> ] >>
          ELSE << >> ],
      jmir    |-> <<
          [ id |-> << "https:", "", "ai.jmir.org", "2024", "e9" >>, link |-> "j9",
            title |-> <<"P","e","r","s","u","a","s","i","o","n">>, summary |-> <<>> ] >>,
      arxiv   |-> << >> ]

\* responses that were cut short: the last entry of a feed lacks the fields
\* that had not arrived; and an opinion feed whose entry carries the id the
\* arXiv collector derives for a paper
World_Broken ==
    [ experts |-> [ i \in 1..8 |->
          IF i = 1 THEN << [ id |-> "x5", link |-> "l5" ] >>
          ELSE IF i = 8 THEN << [ id |-> "2402.001", link |-> "l8",
                                  title |-> <<"O","n"," ","G","P","T">>, summary |-> <<>> ] >>
          ELSE << >> ],
      reddit  |-> [ j \in 1..7 |->
          IF j = 2 THEN << [ id |-> "t3_c", link |-> "r3", title |-> <<"S","c","a","l","i","n","g">> ],
                           [ id |-> "t3_d", link |-> "r4" ] >>
          ELSE << >> ],
      jmir    |-> <<
          [ id |-> << "https:", "", "ai.jmir.org", "2024", "e5" >>, link |-> "j5",
            title |-> <<"B","r","a","n","d">>, summary |-> <<>> ],
          [ id |-> << "https:", "", "ai.jmir.org", "2024", "e6" >>, link |-> "j6",
            title |-> <<"T","r","u","s","t">> ] >>,
      arxiv   |-> <<
          [ id |-> << "http://arxiv.org", "/abs/", "2402.001", "v", "1" >>, link |-> "a4",
            title |-> <<"P","e","r","s","u","a","s","i","o","n">>, summary |-> <<>> ] >> ]

\* a scholarly feed with more relevant entries than the cap
World_Long ==
    [ experts |-> NoFeeds,
      reddit  |-> NoSubs,
      jmir    |-> [ i \in 1..MaxFeed |->
          [ id |-> << "https:", "", "ai.jmir.org", "e" \o ToString(i) >>, link |-> "j",
            title |-> <<"B","r","a","n","d">>, summary |-> <<>> ] ],
      arxiv   |-> << >> ]

\* the sources and the generation service of one behaviour: a service that
\* answers some calls and fails others is explored over the scholarly sources,
\* one that is up or down over all three
Environments ==
    ({ World_Scholarly } \X { "up", "down", "flaky" })
    \cup ({ World_Social, World_Long } \X { "up", "down" })
    \cup ({ World_Broken } \X { "up" })

NoProbe == [ title |-> << >>, abstract |-> << >>, verdict |-> "none" ]

Init ==
    /\ \E e \in Environments : upstream = e[1] /\ gen = e[2]
    /\ file = FileMissing
    /\ pc = "idle"
    /\ seen_ids = << >>
    /\ all_content = << >>
    /\ idx = 1
    /\ new_finds = << >>
    /\ raw_briefing = << >>
    /\ email_body = NoBody
    /\ mail = "none"
    /\ runs = 0
    /\ hist = HistInit
    /\ everSeen = {}
    /\ probe = NoProbe

\* between two runs a source revises an entry it serves
Revise ==
    /\ pc \in Ended
    /\ upstream = World_Scholarly
    /\ gen = "up"
    /\ upstream' = World_Revised
    /\ UNCHANGED << file, pc, seen_ids, all_content, idx, new_finds, raw_briefing,
                    email_body, mail, gen, runs, hist, everSeen, probe >>

Next ==
    \/ Revise
    \/ StartRun
    \/ LoopEnd
    \/ SkipSeen
    \/ Break
    \/ Process
    \/ SaveOpen
    \/ SaveDump
    \/ Sleep
    \/ Brief
    \/ NothingNew
    \/ Send
    \/ Kill

Spec == Init /\ [][Next]_vars

-----------------------------------------------------------------------------
(* main started on backing data it did not write itself.                   *)

BackingData ==
    { FileMissing, FileCorrupt, FileUndecodable, FileNotObject, FileNoKey,
      FileRecord(<< >>), FileRecord(<< "e1" >>) }

InitStore ==
    /\ upstream \in { World_Scholarly, World_Long }
    /\ gen = "up"
    /\ file \in BackingData
    /\ pc = "idle"
    /\ seen_ids = << >>
    /\ all_content = << >>
    /\ idx = 1
    /\ new_finds = << >>
    /\ raw_briefing = << >>
    /\ email_body = NoBody
    /\ mail = "none"
    /\ runs = 0
    /\ hist = HistInit
    /\ everSeen = {}
    /\ probe = NoProbe

SpecStore == InitStore /\ [][Next]_vars

-----------------------------------------------------------------------------
(* The classifier on its own: is_relevant applied to a title and a body.   *)

ProbeTitles ==
    { <<>>, <<"C","a","n","c","e","r">>, <<"B","r","a","n","d"," ","M","A","R","K","E","T","I","N","G">>, <<"c","a","n","c","e","r"," ","m","a","r","k","e","t","i","n","g">>, <<"W","e","a","t","h","e","r">>,
      <<"C","l","i","n","i","c","a","l">>, <<"U","X">>, <<"s","c","a","n","n","e","r"," ","d","e","s","i","g","n">>, <<"P","s","y","c","h","o","l","o","g","y"," ","o","f"," ","T","r","u","s","t">>, <<"c","a","n">>,
      <<"m","a","r","k">>, <<"T","u","m","o","r">> }

ProbeBodies ==
    { <<>>, <<"t","r","i","a","l">>, <<"c","e","r">>, <<"e","t","i","n","g">>, <<"t","u","m","o","r">>, <<"t","r","u","s","t">>, <<"r","a","i","n">>, <<"M","R","I">>,
      <<"e","t","h","i","c","s"," ","o","f"," ","d","i","a","g","n","o","s","i","s">> }

InitClassifier ==
    /\ upstream = World_Scholarly
    /\ gen = "up"
    /\ file = FileMissing
    /\ pc = "idle"
    /\ seen_ids = << >>
    /\ all_content = << >>
    /\ idx = 1
    /\ new_finds = << >>
    /\ raw_briefing = << >>
    /\ email_body = NoBody
    /\ mail = "none"
    /\ runs = 0
    /\ hist = HistInit
    /\ everSeen = {}
    /\ probe \in [ title : ProbeTitles, abstract : ProbeBodies, verdict : { "unset" } ]

Classify ==
    /\ probe.verdict = "unset"
    /\ probe' = [ probe EXCEPT !.verdict =
                    IF is_relevant(probe.title, probe.abstract) THEN "accept" ELSE "reject" ]
    /\ UNCHANGED << upstream, file, pc, seen_ids, all_content, idx, new_finds,
                    raw_briefing, email_body, mail, gen, runs, hist, everSeen >>

NextClassifier == Classify

SpecClassifier == InitClassifier /\ [][NextClassifier]_vars

-----------------------------------------------------------------------------
(* The claims.                                                             *)

\* the ids of the candidates of this run that get_seen_ids did not return
Unseen0 == Ids(all_content) \ hist.seen0

\* the text is_relevant matches the two lists against
ProbeText == Lower(JoinText(probe.title, probe.abstract))

HasBlockTerm(text) == \E n \in 1..Len(negative_keywords) : IsSubstring(negative_keywords[n], text)
HasAllowTerm(text) == \E p \in 1..Len(positive_keywords) : IsSubstring(positive_keywords[p], text)

\* C1: no run accepts an item whose id a completed save had already written
\* to the file before the run started, whatever happened to earlier runs.
C1_SeenNeverAcceptedAgain ==
    Ids(new_finds) \cap hist.seenBefore = {}

C3_CapEnforced ==
    (pc = "report" /\ Cardinality(Unseen0) > max_email_items)
        => /\ Len(new_finds) = max_email_items
           /\ Cardinality(Ids(new_finds)) = max_email_items
           /\ Range(seen_ids) = hist.seen0 \cup Ids(new_finds)
           /\ Persisted = Range(seen_ids)
           /\ Cardinality(Persisted) = Cardinality(hist.seen0) + max_email_items
           /\ hist.hitCap
           /\ idx <= Len(all_content)
           /\ all_content[idx].id \notin Persisted
           /\ \A k \in 1..(idx - 1) : all_content[k].id \in Persisted
           /\ (Unseen0 \ Ids(new_finds)) \cap Persisted = {}
           /\ Unseen0 \ Ids(new_finds) # {}

C3_Witness ==
    /\ pc = "report"
    /\ Cardinality(Unseen0) > max_email_items
    /\ Len(new_finds) = max_email_items
    /\ hist.hitCap

\* C4: an item whose save had just completed when its run was killed (before
\* the next candidate was looked at) is never accepted by a later run; stated
\* of the first run of a behaviour.
C4_KilledAfterSaveNeverAcceptedAgain ==
    Ids(new_finds) \cap hist.killedAfter = {}

\* C5: at the head of the loop every accepted item of the run is in the file,
\* and at every point of a run at most one accepted item is missing from the
\* file.
C5_AtMostOneItemInFlight ==
    /\ pc = "loop" => Ids(new_finds) \subseteq Persisted
    /\ pc \in Running => Cardinality(Ids(new_finds) \ Persisted) <= 1

\* C6: a text that holds a block-list term and an allow-list term is rejected,
\* for every such pair of terms.
C6_BlockBeatsAllow ==
    \A n \in 1..Len(negative_keywords), p \in 1..Len(positive_keywords) :
        (probe.verdict \in { "accept", "reject" }
            /\ IsSubstring(negative_keywords[n], ProbeText)
            /\ IsSubstring(positive_keywords[p], ProbeText))
        => probe.verdict = "reject"

C6_Witness ==
    /\ probe.verdict = "reject"
    /\ HasBlockTerm(ProbeText)
    /\ HasAllowTerm(ProbeText)

\* C7: a text that holds no term of either list is rejected, with an empty
\* body as with any other.
C7_DefaultDeny ==
    (probe.verdict \in { "accept", "reject" }
        /\ ~ HasBlockTerm(ProbeText) /\ ~ HasAllowTerm(ProbeText))
    => probe.verdict = "reject"

C7_Witness ==
    /\ probe.verdict = "reject"
    /\ probe.abstract = << >>
    /\ Len(probe.title) > 0
    /\ ~ HasBlockTerm(ProbeText)
    /\ ~ HasAllowTerm(ProbeText)

\* the entries of the JMIR feed behind the result of the collector in this
\* run: none when the request failed or an entry came without a field
JmirEntries ==
    IF << "jmir", 1 >> \in hist.down THEN << >>
    ELSE IF \E k \in 1..Min(Len(upstream.jmir), scan_depth) :
                { "id", "title", "summary", "link" } \ DOMAIN upstream.jmir[k] # {}
    THEN << >>
    ELSE Take(upstream.jmir, scan_depth)

EntryText(entry) == Lower(JoinText(entry.title, entry.summary))

\* C8: when the loop of a run has ended without reaching the cap, of the
\* entries of the JMIR feed: none whose id was loaded as seen is accepted, none
\* that holds a block term is accepted, every one that holds an allow term and
\* no block term and whose id was not loaded as seen has its id accepted; and
\* the Seen-Set is the loaded set plus the ids of the accepted items.  When the
\* mail is about to be sent, its body lists exactly the accepted items, in
\* order.
C8_RunOutcome ==
    /\ (pc = "report" /\ ~ hist.hitCap) =>
          /\ LET entries == JmirEntries IN
             \A k \in 1..Len(entries) :
                LET entry == entries[k]
                    blocked == HasBlockTerm(EntryText(entry))
                IN
                /\ LastPiece(entry.id) \in hist.seen0 =>
                      LastPiece(entry.id) \notin Ids(new_finds)
                /\ blocked =>
                      \A i \in 1..Len(new_finds) : new_finds[i].url # entry.link
                /\ (~ blocked /\ LastPiece(entry.id) \notin hist.seen0
                        /\ HasAllowTerm(EntryText(entry))) =>
                      LastPiece(entry.id) \in Ids(new_finds)
          /\ Range(seen_ids) = hist.seen0 \cup Ids(new_finds)
          /\ Len(new_finds) > 0 => Persisted = hist.seen0 \cup Ids(new_finds)
    /\ pc = "send" =>
          /\ Len(email_body.items) = Len(new_finds)
          /\ \A i \in 1..Len(new_finds) :
                /\ email_body.items[i].url = new_finds[i].url
                /\ email_body.items[i].summary = new_finds[i].summary

\* the scenario of the claim: an id loaded as seen, a blocked entry, an allowed
\* entry that is accepted alone
C8_Witness ==
    /\ pc = "send"
    /\ ~ hist.hitCap
    /\ hist.down = {}
    /\ hist.seen0 = { "e1" }
    /\ upstream = World_Scholarly
    /\ "e3" \in Ids(new_finds)
    /\ Persisted = { "e1" } \cup Ids(new_finds)
    /\ Len(email_body.items) = Len(new_finds)

\* C9: in a run whose generation calls all failed, every accepted item carries
\* the fallback summary and is in the file when the mail is about to be sent,
\* the briefing is the fallback briefing; and main is left by an exception
\* only when save_seen_id raised.
C9_FallbackNotPropagated ==
    /\ (pc = "send" /\ hist.genFailed /\ ~ hist.genOk) =>
          /\ \A i \in 1..Len(new_finds) : new_finds[i].summary = SummaryFailed
          /\ raw_briefing = BriefingFailed
          /\ Ids(new_finds) \subseteq Persisted
    /\ pc = "failed" => hist.writeError

C9_Witness ==
    /\ pc = "send"
    /\ hist.genFailed
    /\ ~ hist.genOk
    /\ Len(new_finds) >= 2
    /\ raw_briefing = BriefingFailed

\* C10: once save_seen_id has raised in a run, the run is over with the
\* exception out of main, and no mail was handed over by it.
C10_WriteFailureIsFatal ==
    hist.writeError => (pc = "failed" /\ mail = "none" /\ email_body = NoBody)

C10_Witness ==
    /\ pc = "failed"
    /\ hist.writeError
    /\ file = FileCorrupt
    /\ everSeen # {}


\* C11: get_seen_ids never raises and returns the empty list for every file
\* that does not hold the record: every start of main reaches the loop, with
\* nothing taken as seen unless the file held the record.
C11_LoadIsTotal ==
    [][ (pc \in Ended /\ runs' = runs + 1) =>
            /\ pc' = "loop"
            /\ file.kind # "ok" => (seen_ids' = << >> /\ hist'.seen0 = {})
            /\ file.kind = "ok" => seen_ids' = file.seen_ids ]_vars

\* C12: when send_email is called every accepted item of the run is in the
\* file; after a delivery that failed main has returned and the file still
\* holds the ids of the report; and no later run accepts an item of a report
\* whose delivery failed (stated of the report of the first run).
C12_DroppedReportNeverAcceptedAgain ==
    /\ pc = "send" => Ids(new_finds) \subseteq Persisted
    /\ (pc = "done" /\ mail = "failed" /\ runs = 1) =>
          (hist.dropped # {} /\ hist.dropped \subseteq Persisted)
    /\ Ids(new_finds) \cap hist.dropped = {}

C12_WritesBeforeDelivery ==
    /\ pc = "send" => Ids(new_finds) \subseteq Persisted
    /\ (pc = "done" /\ mail = "failed" /\ runs = 1) =>
          (hist.dropped # {} /\ hist.dropped \subseteq Persisted)

\* the units of the four collectors
AllUnits ==
    { << "expert", i >> : i \in 1..Len(expert_feeds) }
    \cup { << "reddit", j >> : j \in 1..Len(reddit_tech_subs \o reddit_general_subs) }
    \cup { << "jmir", 1 >>, << "arxiv", 1 >> }

\* the source the items of a unit carry
UnitSource(u) ==
    IF u[1] = "expert" THEN "Expert Voice: " \o expert_feeds[u[2]].name
    ELSE IF u[1] = "reddit" THEN "r/" \o (reddit_tech_subs \o reddit_general_subs)[u[2]]
    ELSE IF u[1] = "jmir" THEN "JMIR AI"
    ELSE "arXiv"

\* the scan of a community raises before it ends
RECURSIVE RedditScanRaises(_, _, _)
RedditScanRaises(sub, entries, found_count) ==
    IF Len(entries) = 0 \/ found_count >= 2 THEN FALSE
    ELSE IF "title" \notin DOMAIN entries[1] THEN TRUE
    ELSE IF (\E g \in 1..Len(reddit_general_subs) : reddit_general_subs[g] = sub)
            /\ ~ AnyIn(expert_ai_keywords, Lower(Strip(Remove(entries[1].title, <<"[","D","]">>))))
    THEN RedditScanRaises(sub, Drop(entries, 1), found_count)
    ELSE IF "id" \notin DOMAIN entries[1] \/ "link" \notin DOMAIN entries[1] THEN TRUE
    ELSE RedditScanRaises(sub, Drop(entries, 1), found_count + 1)

\* the request of the unit failed in this run, or reading its entries raised
UnitFailed(u) ==
    \/ u \in hist.down
    \/ /\ u[1] = "expert"
       /\ Len(upstream.experts[u[2]]) > 0
       /\ \/ "title" \notin DOMAIN upstream.experts[u[2]][1]
          \/ "link" \notin DOMAIN upstream.experts[u[2]][1]
    \/ /\ u[1] = "reddit"
       /\ RedditScanRaises((reddit_tech_subs \o reddit_general_subs)[u[2]],
                           Take(upstream.reddit[u[2]], 5), 0)
    \/ /\ u[1] = "jmir"
       /\ \E k \in 1..Min(Len(upstream.jmir), scan_depth) : EntryRaises(upstream.jmir[k])
    \/ /\ u[1] = "arxiv"
       /\ \E k \in 1..Len(upstream.arxiv) : EntryRaises(upstream.arxiv[k])

\* what the unit contributed to the candidates of this run
Contribution(u) == SelectSeq(all_content, LAMBDA item : item.source = UnitSource(u))

\* what the unit serves when nothing is out
Alone(u) == SelectSeq(Gather({}), LAMBDA item : item.source = UnitSource(u))

\* the collectors have returned to main and the loop has not started
Collected == pc = "loop" /\ idx = 1

\* the other units are not touched by a failure, and their candidates are
\* processed in the run: a unit that did not fail contributes what it serves
\* (a community, the start of it: fetch_reddit_buzz returns three candidates
\* at most), and a loop that ended below the cap has every candidate in the
\* Seen-Set
OthersUntouched ==
    /\ Collected =>
          \A u \in AllUnits : ~ UnitFailed(u) =>
              IF u[1] = "reddit"
              THEN Contribution(u) = Take(Alone(u), Len(Contribution(u)))
              ELSE Contribution(u) = Alone(u)
    /\ (pc = "report" /\ ~ hist.hitCap) => Ids(all_content) \subseteq Range(seen_ids)

\* C13: when the collectors have returned (none raised into main), a
\* unit whose request failed or whose entries could not be read contributes
\* nothing, and the other units are not touched.
C13_FailedUnitContributesNothing ==
    /\ Collected => \A u \in AllUnits : UnitFailed(u) => Contribution(u) = << >>
    /\ OthersUntouched

\* the same, the communities whose scan raised left aside
C13_IsolationApartFromCommunities ==
    /\ Collected =>
          \A u \in AllUnits : (UnitFailed(u) /\ (u[1] # "reddit" \/ u \in hist.down))
                                  => Contribution(u) = << >>
    /\ OthersUntouched

\* C14: outside the rewrite of the file itself, the record holds every id a
\* completed save_seen_id has ever written to it: no load and no record
\* operation, completed or not, leaves it with fewer ids than it held.
C14_SeenSetNeverShrinks ==
    pc # "dump" => everSeen \subseteq Persisted

\* the operations that complete only add: between two candidates, and after
\* the loop, the record holds every id this run loaded and every id it saved
C14_CompletedOperationsOnlyAdd ==
    pc \in { "loop", "sleep", "report", "send" } =>
        (Len(new_finds) > 0 => hist.seen0 \cup Ids(new_finds) \subseteq Persisted)

\* C15: before the loop of a run has ended neither the briefing nor the mail
\* exists; send_email is called only with a non-empty accepted list, after
\* the one briefing was generated, with every accepted item recorded and no
\* delivery attempted yet; and a run that returned handed a report to
\* send_email exactly when it had accepted something.
C15_NotificationGating ==
    /\ pc \in { "loop", "save", "dump", "sleep", "report" } =>
          (raw_briefing = << >> /\ email_body = NoBody /\ mail = "none")
    /\ pc = "send" =>
          /\ Len(new_finds) > 0
          /\ raw_briefing # << >>
          /\ Len(email_body.items) = Len(new_finds)
          /\ mail = "none"
          /\ idx > Len(all_content) \/ hist.hitCap
          /\ Ids(new_finds) \subseteq Persisted
    /\ pc = "done" =>
          (hist.lastFinds > 0 <=> mail \in { "skipped", "sent", "failed" })

C15_Witness ==
    /\ pc = "done"
    /\ runs = 2
    /\ hist.lastFinds = 0
    /\ mail = "none"
    /\ hist.dropped # {}

\* the place of a source in the order of line 390: the opinion feeds in their
\* configured order, the communities in theirs, JMIR, arXiv
SourceRank(source) ==
    IF HasExpertVoice(source)
    THEN CHOOSE i \in 1..Len(expert_feeds) : source = "Expert Voice: " \o expert_feeds[i].name
    ELSE IF HasRSlash(source)
    THEN Len(expert_feeds)
         + (CHOOSE j \in 1..Len(reddit_tech_subs \o reddit_general_subs) :
                source = "r/" \o (reddit_tech_subs \o reddit_general_subs)[j])
    ELSE IF source = "JMIR AI" THEN 100
    ELSE 101

\* an item, as the feed entry it was made from
Key(item) == << item.id, item.url >>
Keys(items) == [ i \in 1..Len(items) |-> Key(items[i]) ]

\* the candidates whose id get_seen_ids did not return, in order
UnseenAtLoad == SelectSeq(all_content, LAMBDA item : item.id \notin hist.seen0)

\* the places of the candidates whose id is in the Seen-Set neither at the
\* load nor by an earlier candidate of the run
FirstUnseenAt ==
    { k \in 1..Len(all_content) :
        /\ all_content[k].id \notin hist.seen0
        /\ \A m \in 1..(k - 1) : all_content[m].id # all_content[k].id }

\* those candidates, in order
RECURSIVE PickFrom(_, _)
PickFrom(k, places) ==
    IF k > Len(all_content) THEN << >>
    ELSE (IF k \in places THEN << Key(all_content[k]) >> ELSE << >>) \o PickFrom(k + 1, places)

FirstUnseen == PickFrom(1, FirstUnseenAt)

CollectorOrder ==
    Collected =>
        \A i, j \in 1..Len(all_content) :
            i < j => SourceRank(all_content[i].source) <= SourceRank(all_content[j].source)

\* C16 (as stated): the candidates are in the order of the collectors, and
\* when the loop has ended the accepted list is the first min(cap, n) of the
\* n candidates whose id was not in the loaded Seen-Set.
C16_FirstSeenWins ==
    /\ CollectorOrder
    /\ pc = "report" => Keys(new_finds) = Take(Keys(UnseenAtLoad), max_email_items)

\* C16 (amended): the same of the candidates whose id is unseen when the loop
\* reaches them; and all through the run the accepted list is the start of
\* that sequence, cap items at most.
C16_FirstUnseenWins ==
    /\ CollectorOrder
    /\ pc = "report" => Keys(new_finds) = Take(FirstUnseen, max_email_items)
    /\ pc \in Running =>
          /\ Len(new_finds) <= max_email_items
          /\ Keys(new_finds) = Take(FirstUnseen, Len(new_finds))

\* an id loaded as seen, an unseen id served twice, two items accepted
C16_Witness ==
    /\ pc = "report"
    /\ hist.seen0 # {}
    /\ Len(UnseenAtLoad) > Len(FirstUnseen)
    /\ Len(new_finds) >= 2
    /\ Keys(new_finds) = FirstUnseen

\* what the scholarly collectors make of the entries of a feed: "pass" or
\* "reject" by is_relevant, "unread" for an entry that came without a field
Verdicts(entries) ==
    [ k \in 1..Len(entries) |->
        IF { "id", "title", "summary" } \ DOMAIN entries[k] # {} THEN "unread"
        ELSE IF is_relevant(entries[k].title, entries[k].summary) THEN "pass"
        ELSE "reject" ]

\* the same of the first entry of each opinion feed, by the keyword gate
ExpertVerdicts(world) ==
    [ i \in 1..Len(expert_feeds) |->
        IF Len(world.experts[i]) = 0 THEN "unread"
        ELSE IF { "id", "title", "summary" } \ DOMAIN world.experts[i][1] # {} THEN "unread"
        ELSE IF expert_feeds[i].filter
                /\ ~ AnyIn(expert_ai_keywords,
                            Lower(JoinText(world.experts[i][1].title,
                                           Take(world.experts[i][1].summary, 2500))))
        THEN "reject"
        ELSE "pass" ]

\* the same of the entries of a community
RedditVerdicts(world, j) ==
    [ k \in 1..Min(Len(world.reddit[j]), 5) |->
        IF { "id", "title" } \ DOMAIN world.reddit[j][k] # {} THEN "unread"
        ELSE IF j > Len(reddit_tech_subs)
                /\ ~ AnyIn(expert_ai_keywords,
                            Lower(Strip(Remove(world.reddit[j][k].title, <<"[","D","]">>))))
        THEN "reject"
        ELSE "pass" ]

\* the ids of the entries the sources serve that a collector rejects (the
\* classifier of the scholarly collectors, the keyword gate of the opinion
\* feeds and of the general communities), less the ids an entry that passes
\* carries too
RejectedOf(world) ==
    LET jmir == Take(world.jmir, scan_depth)
        jv == Verdicts(jmir)
        av == Verdicts(world.arxiv)
        ev == ExpertVerdicts(world)
        subs == 1..Len(reddit_tech_subs \o reddit_general_subs)
        rv == [ j \in subs |-> RedditVerdicts(world, j) ]
        With(verdict) ==
            { LastPiece(jmir[k].id) : k \in { n \in 1..Len(jmir) : jv[n] = verdict } }
            \cup { BeforeFirstV(AfterLastAbs(world.arxiv[k].id)) :
                        k \in { n \in 1..Len(world.arxiv) : av[n] = verdict } }
            \cup { world.experts[i][1].id :
                        i \in { n \in 1..Len(expert_feeds) : ev[n] = verdict } }
            \cup UNION { { world.reddit[j][k].id :
                              k \in { n \in DOMAIN rv[j] : rv[j][n] = verdict } } : j \in subs }
    IN  With("reject") \ With("pass")

\* what the sources of a behaviour can serve
Worlds == { World_Scholarly, World_Revised, World_Social, World_Long, World_Broken }

RejectedByWorld == [ world \in Worlds |-> RejectedOf(world) ]

\* the rejected ids of what the sources serve now
RejectedIds == RejectedByWorld[upstream]

\* C17: while a source serves an entry that is rejected, its id is in the
\* Seen-Set neither in memory nor in the file when the loop of a run has
\* ended, and the accepted list holds no rejected entry, so none counts
\* toward the cap; once the revised entry passes, a run whose loop ends below
\* the cap with the JMIR feed read has it in its accepted list, unless the id
\* was loaded as seen.
C17_RejectionsNotMemoised ==
    /\ (pc = "report" /\ Persisted \cup Range(seen_ids) # {}) =>
          RejectedIds \cap (Persisted \cup Range(seen_ids) \cup Ids(new_finds)) = {}
    /\ (pc = "report" /\ ~ hist.hitCap /\ upstream = World_Revised
            /\ << "jmir", 1 >> \notin hist.down) =>
          "e2" \in hist.seen0 \cup Ids(new_finds)

\* the run before returned and was not offered e2; this one accepted it
C17_Witness ==
    /\ pc = "report"
    /\ upstream = World_Revised
    /\ hist.lastStatus = "done"
    /\ Len(hist.lastContent) > 0
    /\ "e2" \notin Ids(hist.lastContent)
    /\ Ids(new_finds) = { "e2" }
    /\ "e2" \in Persisted

\* the deep fetch of the thread failed: main wrote the fallback text (src
\* line 408); a transcript starts with "OP POST: "
DeepFetchFailed(item) ==
    /\ HasRSlash(item.source)
    /\ Len(item.raw_text) > 0
    /\ item.raw_text[1] = "Reddit scraping failed. Web Search Context:\n"

\* C18: every accepted thread whose deep fetch failed was summarized from the
\* prompt that says the comments could not be read, whatever the web search
\* gave.
C18_FailedFetchTakesMissingBranch ==
    \A i \in 1..Len(new_finds) :
        DeepFetchFailed(new_finds[i]) =>
            RedditPrompt(new_finds[i].raw_text) = "could not read the comments"

\* the same, of the threads whose web search found results; and a thread that
\* was read is summarized as a transcript
C18_BranchWhenResultsFound ==
    \A i \in 1..Len(new_finds) :
        /\ (DeepFetchFailed(new_finds[i])
              /\ \E k \in 1..Len(new_finds[i].raw_text) :
                    new_finds[i].raw_text[k] = "Web Findings:\n")
            => RedditPrompt(new_finds[i].raw_text) = "could not read the comments"
        /\ (HasRSlash(new_finds[i].source) /\ new_finds[i].raw_text = Transcript)
            => RedditPrompt(new_finds[i].raw_text) = "discussion transcript"

\* C19: the accepted list of a run never holds two items with the same id,
\* and once save_seen_id has been entered for an item its id is in the list
\* the membership test of line 394 reads.
C19_NoDuplicateWithinRun ==
    /\ \A i, j \in 1..Len(new_finds) : i # j => new_finds[i].id # new_finds[j].id
    /\ pc \in { "dump", "sleep", "loop", "report", "send" } =>
          Ids(new_finds) \subseteq Range(seen_ids)

\* the loop has ended over candidates two of which, from two collectors,
\* carry one id, accepted once
C19_Witness ==
    /\ pc = "report"
    /\ \E i, j \in 1..Len(all_content) :
          /\ i < j
          /\ all_content[i].id = all_content[j].id
          /\ all_content[i].source # all_content[j].source
          /\ all_content[i].id \notin hist.seen0
          /\ \E k \in 1..Len(new_finds) : Key(new_finds[k]) = Key(all_content[i])
    /\ Cardinality(Ids(new_finds)) = Len(new_finds)
    /\ Len(new_finds) >= 2

\* C20: in a run that has accepted an item, whenever the loop is between two
\* candidates or has ended, the ids of the file are the ids loaded at the
\* start plus the ids of the items accepted so far, and are the ids of the
\* list in memory; and at every point of a run the list in memory holds,
\* beyond the loaded ids, only ids of accepted items.
C20_PersistedTracksAccepted ==
    /\ (pc \in { "loop", "report" } /\ Len(new_finds) > 0) =>
          /\ Persisted = hist.seen0 \cup Ids(new_finds)
          /\ Persisted = Range(seen_ids)
    /\ pc \in Running => Range(seen_ids) \ hist.seen0 \subseteq Ids(new_finds)

C20_Witness ==
    /\ pc = "loop"
    /\ idx <= Len(all_content)
    /\ hist.seen0 # {}
    /\ Len(new_finds) >= 2
    /\ Persisted = hist.seen0 \cup Ids(new_finds)
=============================================================================
